---- MODULE Spec2Model ----
(***************************************************************************)
(* Model of the toast notification manager of src/src/hooks/use-toast.ts:  *)
(* the module-level state (count, memoryState, toastTimeouts and the       *)
(* pending setTimeout callbacks), the reducer, and the entry points        *)
(* toast(), handle.update, handle.dismiss, useToast().dismiss, the         *)
(* onOpenChange callback of a record and the firing of a removal timer;    *)
(* and the useToast hook: the listeners array, and for each component that *)
(* calls the hook its React state and the steps of its effect; and the    *)
(* two suggestion handlers of SubmitDealForm, which show their toasts      *)
(* through toast().                                                        *)
(*                                                                         *)
(* A record (ToasterToast) is a function from field names to values, so    *)
(* that object spread is a merge of functions.  An optional string         *)
(* argument (toastId?: string) is a tagged value, so that undefined, the   *)
(* empty string and a non-empty string stay distinct.                      *)
(***************************************************************************)
EXTENDS Integers, Sequences, FiniteSets, Bags, TLC

\* ---------------------------------------------------------------- bounds
\* number of toast() calls explored
MaxShows == 2
\* largest configured limit explored by SpecN
MaxLimit == 2
\* genId is examined on the counter values within MaxGen of 0 and of the wrap
MaxGen == 60
\* number of consecutive genId calls compared with one another
MaxWindow == 3

\* ------------------------------------------------------------- constants
TOAST_LIMIT == 1
\* Number.MAX_SAFE_INTEGER is 2^53 - 1; TLC integers are 32 bits wide, so the
\* modulus is represented by the largest TLC integer.  No run of MaxShows
\* calls reaches either value.
MAX_SAFE_INTEGER == 2147483647

\* ------------------------------------------------------- optional strings
Undefined == [tag |-> "undefined", val |-> ""]
Some(s) == [tag |-> "string", val |-> s]
\* JavaScript truthiness of an optional string: undefined and "" are falsy
Truthy(o) == o.tag = "string" /\ o.val # ""
\* t.id === toastId, for a string t.id and an optional toastId
StrictEq(s, o) == o.tag = "string" /\ o.val = s

\* ---------------------------------------------------------------- records
NoProps == [f \in {} |-> ""]
\* object spread { ...a, ...b }: the fields of b win
Spread(a, b) ==
  [f \in (DOMAIN a) \cup (DOMAIN b) |-> IF f \in DOMAIN b THEN b[f] ELSE a[f]]

\* count, memoryState, toastTimeouts: the module-level variables of the source
\* timers: the bag of setTimeout callbacks that are scheduled and have not run
\* limit:  the value TOAST_LIMIT was built with
\* last:   the latest call and the action it dispatched (for a call on a
\*         handle, also the id that handle was returned for)
\* shows:  the fields of the toast() calls so far, while nothing else was called
VARIABLES count, memoryState, toastTimeouts, timers, limit, last, shows
\* listeners: the listeners array; a setState function is named by its component
\* hooks:     for each component calling useToast: where its hook stands (pc),
\*            the value of its React state, and whether setState was called
\*            since its effect last ran (the dependency [state] has changed)
\* delivered: the listener calls made by the latest step, in order
VARIABLES listeners, hooks, delivered
\* form: the SubmitDealForm component: the loading flags isSuggestingTags and
\*       isSuggestingDescription, where each suggestion handler stands, the
\*       form values the handlers read and write, and the latest handler step
VARIABLE form
hookVars == <<listeners, hooks, delivered>>
vars == <<count, memoryState, toastTimeouts, timers, limit, last, shows, hookVars, form>>

\* the components that call useToast()
Observers == {"Toaster", "SubmitDealForm"}

\* ---------------------------------------------------------------- inputs
GenIds == {ToString(i) : i \in 1..MaxShows}
IssuedIds == {ToString(i) : i \in 1..count}
\* ids a caller may pass to dismiss: any issued or not yet issued id, and ""
IdInputs == GenIds \cup {""}
OptIdInputs == {Some(s) : s \in IdInputs} \cup {Undefined}

TitlePart(T) == {NoProps} \cup {[title |-> t] : t \in T}
OpenPart(B) == {NoProps} \cup {[open |-> b] : b \in B}
IdPart(I) == {NoProps} \cup {[id |-> i] : i \in I}
\* fields passed to toast(): Omit<ToasterToast, "id">
ToastInputs == {Spread(a, b) : a \in TitlePart({"A", "B"}), b \in OpenPart({FALSE})}
\* fields passed to handle.update(): ToasterToast, any subset supplied
UpdateInputs ==
  {Spread(Spread(a, b), c) : a \in TitlePart({"B"}), b \in OpenPart(BOOLEAN), c \in IdPart({"2"})}

\* ------------------------------------------------------------------ genId
\* variant: the counter is not advanced
genIdCount_NoIncrement(c) == c % MAX_SAFE_INTEGER

\* variant: the remainder is taken before the increment
genIdCount_ModThenAdd(c) == (c % MAX_SAFE_INTEGER) + 1

genIdCount(c) == (c + 1) % MAX_SAFE_INTEGER
genIdString(c) == ToString(genIdCount(c))

\* ------------------------------------------------------- addToRemoveQueue
\* q = [toastTimeouts: set of keys of the Map, timers: bag of pending callbacks]
\* variant: the has() test is missing, every call schedules a callback
addToRemoveQueue_NoCheck(q, toastId) ==
  [toastTimeouts |-> q.toastTimeouts \cup {toastId},
   timers |-> q.timers (+) SetToBag({toastId})]

\* variant: the entry is stored but no callback is scheduled
addToRemoveQueue_KeyOnly(q, toastId) ==
  IF toastId \in q.toastTimeouts
    THEN q
    ELSE [toastTimeouts |-> q.toastTimeouts \cup {toastId}, timers |-> q.timers]

addToRemoveQueue(q, toastId) ==
  IF toastId \in q.toastTimeouts
    THEN q
    ELSE [toastTimeouts |-> q.toastTimeouts \cup {toastId},
          timers |-> q.timers (+) SetToBag({toastId})]

RECURSIVE addAllToRemoveQueue(_, _)
\* state.toasts.forEach((toast) => addToRemoveQueue(toast.id))
addAllToRemoveQueue(q, ts) ==
  IF ts = <<>> THEN q
  ELSE addAllToRemoveQueue(addToRemoveQueue(q, Head(ts).id), Tail(ts))

\* variant: without an id nothing is scheduled
dismissSideEffect_OnlyGiven(q, state, toastId) ==
  IF Truthy(toastId)
    THEN addToRemoveQueue(q, toastId.val)
    ELSE q

\* side effect of the reducer's DISMISS_TOAST case on the timer state
dismissSideEffect(q, state, toastId) ==
  IF Truthy(toastId)
    THEN addToRemoveQueue(q, toastId.val)
    ELSE addAllToRemoveQueue(q, state.toasts)

\* ---------------------------------------------------------------- reducer
Slice(s, n) == SubSeq(s, 1, IF Len(s) < n THEN Len(s) ELSE n)
Map(s, F(_)) == [i \in 1..Len(s) |-> F(s[i])]
Filter(s, P(_)) == SelectSeq(s, P)

AddToast(t) == [type |-> "ADD_TOAST", toast |-> t, toastId |-> Undefined]
UpdateToast(t) == [type |-> "UPDATE_TOAST", toast |-> t, toastId |-> Undefined]
DismissToast(o) == [type |-> "DISMISS_TOAST", toast |-> NoProps, toastId |-> o]
RemoveToast(o) == [type |-> "REMOVE_TOAST", toast |-> NoProps, toastId |-> o]
NoAction == [type |-> "none", toast |-> NoProps, toastId |-> Undefined]

\* variant: the new record is prepended and the list is not truncated
reducerAdd_NoSlice(state, action, lim) ==
  [state EXCEPT !.toasts = <<action.toast>> \o state.toasts]

\* variant: the new record is appended, so truncation keeps the oldest records
reducerAdd_Append(state, action, lim) ==
  [state EXCEPT !.toasts = Slice(state.toasts \o <<action.toast>>, lim)]

reducerAdd(state, action, lim) ==
  [state EXCEPT !.toasts = Slice(<<action.toast>> \o state.toasts, lim)]

\* variant: the id is not compared, the fields are merged into every record
reducerUpdate_All(state, action) ==
  LET upd(t) == Spread(t, action.toast)
  IN [state EXCEPT !.toasts = Map(state.toasts, upd)]

\* variant: the matching record is replaced instead of merged
reducerUpdate_Replace(state, action) ==
  LET upd(t) == IF "id" \in DOMAIN action.toast /\ t.id = action.toast.id
                  THEN action.toast ELSE t
  IN [state EXCEPT !.toasts = Map(state.toasts, upd)]

\* variant: the updated record is moved to the front of the list
reducerUpdate_MoveToFront(state, action) ==
  LET hit(t) == "id" \in DOMAIN action.toast /\ t.id = action.toast.id
      miss(t) == ~hit(t)
      upd(t) == Spread(t, action.toast)
  IN [state EXCEPT !.toasts =
        Map(Filter(state.toasts, hit), upd) \o Filter(state.toasts, miss)]

reducerUpdate(state, action) ==
  LET upd(t) == IF "id" \in DOMAIN action.toast /\ t.id = action.toast.id
                  THEN Spread(t, action.toast) ELSE t
  IN [state EXCEPT !.toasts = Map(state.toasts, upd)]

\* variant: dismissing flips the flag instead of clearing it
reducerDismiss_Toggle(state, action) ==
  LET close(t) == IF StrictEq(t.id, action.toastId) \/ action.toastId = Undefined
                    THEN Spread(t, [open |-> ~t.open]) ELSE t
  IN [state EXCEPT !.toasts = Map(state.toasts, close)]

\* variant: dismissing deletes the record at once
reducerDismiss_Remove(state, action) ==
  LET keep(t) == ~(StrictEq(t.id, action.toastId) \/ action.toastId = Undefined)
  IN [state EXCEPT !.toasts = Filter(state.toasts, keep)]

\* variant: the id is not compared, every record is marked
reducerDismiss_All(state, action) ==
  LET close(t) == Spread(t, [open |-> FALSE])
  IN [state EXCEPT !.toasts = Map(state.toasts, close)]

reducerDismiss(state, action) ==
  LET close(t) == IF StrictEq(t.id, action.toastId) \/ action.toastId = Undefined
                    THEN Spread(t, [open |-> FALSE]) ELSE t
  IN [state EXCEPT !.toasts = Map(state.toasts, close)]

\* variant: the filter test is inverted, the other records are deleted
reducerRemove_Inverted(state, action) ==
  LET keep(t) == StrictEq(t.id, action.toastId)
  IN IF action.toastId = Undefined
       THEN [state EXCEPT !.toasts = <<>>]
       ELSE [state EXCEPT !.toasts = Filter(state.toasts, keep)]

\* variant: the case of a missing id is not handled apart
reducerRemove_NoClear(state, action) ==
  LET keep(t) == ~StrictEq(t.id, action.toastId)
  IN [state EXCEPT !.toasts = Filter(state.toasts, keep)]

reducerRemove(state, action) ==
  LET keep(t) == ~StrictEq(t.id, action.toastId)
  IN IF action.toastId = Undefined
       THEN [state EXCEPT !.toasts = <<>>]
       ELSE [state EXCEPT !.toasts = Filter(state.toasts, keep)]

\* the toasts part of reducer(state, action), under the limit lim
reducer(state, action, lim) ==
  CASE action.type = "ADD_TOAST" -> reducerAdd(state, action, lim)
    [] action.type = "UPDATE_TOAST" -> reducerUpdate(state, action)
    [] action.type = "DISMISS_TOAST" -> reducerDismiss(state, action)
    [] action.type = "REMOVE_TOAST" -> reducerRemove(state, action)

IsListener(o) == \E k \in 1..Len(listeners) : listeners[k] = o

\* variant: the listeners are not called when the state did not change
notify_SkipUnchanged(state) ==
  /\ hooks' = [o \in Observers |->
                IF IsListener(o) /\ state # memoryState
                  THEN [hooks[o] EXCEPT !.state = state, !.dirty = TRUE]
                  ELSE hooks[o]]
  /\ delivered' = IF state # memoryState
                    THEN [k \in 1..Len(listeners) |-> [to |-> listeners[k], state |-> state]]
                    ELSE <<>>
  /\ UNCHANGED listeners

\* listeners.forEach((listener) => listener(memoryState)), each listener
\* being the setState of a hook
notify(state) ==
  /\ hooks' = [o \in Observers |->
                IF IsListener(o)
                  THEN [hooks[o] EXCEPT !.state = state, !.dirty = TRUE]
                  ELSE hooks[o]]
  /\ delivered' = [k \in 1..Len(listeners) |-> [to |-> listeners[k], state |-> state]]
  /\ UNCHANGED listeners

\* variant: a show also clears the timers of the records it evicts
dispatch_ClearsEvicted(action) ==
  /\ memoryState' = reducer(memoryState, action, limit)
  /\ notify(memoryState')
  /\ LET q == [toastTimeouts |-> toastTimeouts, timers |-> timers]
         r == IF action.type = "DISMISS_TOAST"
                THEN dismissSideEffect(q, memoryState, action.toastId) ELSE q
         before == {memoryState.toasts[i].id : i \in 1..Len(memoryState.toasts)}
         after == {memoryState'.toasts[i].id : i \in 1..Len(memoryState'.toasts)}
         gone == IF action.type = "ADD_TOAST" THEN before \ after ELSE {}
     IN /\ toastTimeouts' = r.toastTimeouts \ gone
        /\ timers' = [id \in (DOMAIN r.timers) \ gone |-> r.timers[id]]

\* dispatch(action): memoryState = reducer(memoryState, action), with the
\* reducer's side effect on the timers, then the call of the listeners
dispatch(action) ==
  /\ memoryState' = reducer(memoryState, action, limit)
  /\ notify(memoryState')
  /\ LET q == [toastTimeouts |-> toastTimeouts, timers |-> timers]
         r == IF action.type = "DISMISS_TOAST"
                THEN dismissSideEffect(q, memoryState, action.toastId) ELSE q
     IN /\ toastTimeouts' = r.toastTimeouts
        /\ timers' = r.timers

\* ------------------------------------------------------------------ state
\* the suggestion handlers: handleSuggestTags, handleSuggestDescription
Handlers == {"tags", "description"}

\* the form values the handlers read: basics is productName and category
\* both filled, prices is retailer, originalPrice and dealPrice all filled
NoValues == [basics |-> FALSE, prices |-> FALSE, productDescription |-> "", tags |-> ""]

\* the component as mounted, holding the form values v
FormInit(v) ==
  [flag |-> [h \in Handlers |-> FALSE],
   pc |-> [h \in Handlers |-> "idle"],
   values |-> v,
   call |-> [handler |-> "none", path |-> "none"]]

\* a component that is not mounted has no hook state
Unmounted == [pc |-> "unmounted", state |-> [toasts |-> <<>>], dirty |-> FALSE]

Init ==
  /\ count = 0
  /\ memoryState = [toasts |-> <<>>]
  /\ toastTimeouts = {}
  /\ timers = EmptyBag
  /\ limit = TOAST_LIMIT
  /\ last = [via |-> "init", action |-> NoAction, props |-> NoProps]
  /\ shows = [only |-> TRUE, props |-> <<>>]
  /\ listeners = <<>>
  /\ hooks = [o \in Observers |-> Unmounted]
  /\ delivered = <<>>
  /\ form = FormInit(NoValues)

\* the same program built with another value of TOAST_LIMIT
InitN ==
  /\ count = 0
  /\ memoryState = [toasts |-> <<>>]
  /\ toastTimeouts = {}
  /\ timers = EmptyBag
  /\ limit \in 1..MaxLimit
  /\ last = [via |-> "init", action |-> NoAction, props |-> NoProps]
  /\ shows = [only |-> TRUE, props |-> <<>>]
  /\ listeners = <<>>
  /\ hooks = [o \in Observers |-> Unmounted]
  /\ delivered = <<>>
  /\ form = FormInit(NoValues)

\* a call other than toast() was made
OtherCall == [only |-> FALSE, props |-> <<>>]

\* variant: the supplied fields are spread last and win
NewToast_PropsLast(props, id) ==
  Spread([id |-> id, open |-> TRUE, onOpenChange |-> id], props)

\* the record toast(props) builds for the id it generated
NewToast(props, id) ==
  Spread(props, [id |-> id, open |-> TRUE, onOpenChange |-> id])

\* toast(props)
toast(props) ==
  /\ count < MaxShows
  /\ LET id == genIdString(count)
         a == AddToast(NewToast(props, id))
     IN /\ count' = genIdCount(count)
        /\ dispatch(a)
        /\ last' = [via |-> "toast", action |-> a, props |-> props]
  /\ shows' = IF shows.only THEN [shows EXCEPT !.props = Append(@, props)] ELSE shows
  /\ UNCHANGED limit

\* toast(props), called from outside the suggestion handlers of the form
Toast(props) == toast(props) /\ UNCHANGED form

\* variant: the id is spread first, so an id among the fields wins
HandleUpdate_PropsIdWins(id, props) ==
  /\ LET a == UpdateToast(Spread([id |-> id], props))
     IN /\ dispatch(a)
        /\ last' = [via |-> "handle.update", action |-> a, props |-> props,
                  handle |-> id]
  /\ shows' = OtherCall
  /\ UNCHANGED <<count, limit, form>>

\* handle.update(props), for the handle of toast id
HandleUpdate(id, props) ==
  /\ LET a == UpdateToast(Spread(props, [id |-> id]))
     IN /\ dispatch(a)
        /\ last' = [via |-> "handle.update", action |-> a, props |-> props,
                  handle |-> id]
  /\ shows' = OtherCall
  /\ UNCHANGED <<count, limit, form>>

\* handle.dismiss(), for the handle of toast id
HandleDismiss(id) ==
  /\ LET a == DismissToast(Some(id))
     IN /\ dispatch(a)
        /\ last' = [via |-> "handle.dismiss", action |-> a, props |-> NoProps,
                  handle |-> id]
  /\ shows' = OtherCall
  /\ UNCHANGED <<count, limit, form>>

\* useToast().dismiss(toastId)
Dismiss(toastId) ==
  /\ LET a == DismissToast(toastId)
     IN /\ dispatch(a)
        /\ last' = [via |-> "dismiss", action |-> a, props |-> NoProps]
  /\ shows' = OtherCall
  /\ UNCHANGED <<count, limit, form>>

\* variant: the test of open is inverted
OnOpenChange_Inverted(i, open) ==
  /\ i \in 1..Len(memoryState.toasts)
  /\ IF open
       THEN LET a == DismissToast(Some(memoryState.toasts[i].onOpenChange))
            IN /\ dispatch(a)
               /\ last' = [via |-> "onOpenChange", action |-> a, props |-> NoProps]
       ELSE /\ UNCHANGED <<memoryState, toastTimeouts, timers, listeners, hooks>>
            /\ delivered' = <<>>
            /\ last' = [via |-> "onOpenChange", action |-> NoAction, props |-> NoProps]
  /\ shows' = OtherCall
  /\ UNCHANGED <<count, limit, form>>

\* the onOpenChange callback of the record at position i, called with open
OnOpenChange(i, open) ==
  /\ i \in 1..Len(memoryState.toasts)
  /\ IF ~open
       THEN LET a == DismissToast(Some(memoryState.toasts[i].onOpenChange))
            IN /\ dispatch(a)
               /\ last' = [via |-> "onOpenChange", action |-> a, props |-> NoProps]
       ELSE /\ UNCHANGED <<memoryState, toastTimeouts, timers, listeners, hooks>>
            /\ delivered' = <<>>
            /\ last' = [via |-> "onOpenChange", action |-> NoAction, props |-> NoProps]
  /\ shows' = OtherCall
  /\ UNCHANGED <<count, limit, form>>

\* variant: the callback does not delete its entry of toastTimeouts
TimerFires_KeepsEntry(toastId) ==
  /\ BagIn(toastId, timers)
  /\ LET a == RemoveToast(Some(toastId))
     IN /\ memoryState' = reducer(memoryState, a, limit)
        /\ notify(memoryState')
        /\ toastTimeouts' = toastTimeouts
        /\ timers' = timers (-) SetToBag({toastId})
        /\ last' = [via |-> "timer", action |-> a, props |-> NoProps]
  /\ shows' = OtherCall
  /\ UNCHANGED <<count, limit, form>>

\* the setTimeout callback scheduled by addToRemoveQueue(toastId) runs
TimerFires(toastId) ==
  /\ BagIn(toastId, timers)
  /\ LET a == RemoveToast(Some(toastId))
     IN /\ memoryState' = reducer(memoryState, a, limit)
        /\ notify(memoryState')
        /\ toastTimeouts' = toastTimeouts \ {toastId}
        /\ timers' = timers (-) SetToBag({toastId})
        /\ last' = [via |-> "timer", action |-> a, props |-> NoProps]
  /\ shows' = OtherCall
  /\ UNCHANGED <<count, limit, form>>

\* ---------------------------------------------------------------- useToast
\* listeners.indexOf(setState): the first position, from 0, or -1
IndexOf(ls, o) ==
  IF \E k \in 1..Len(ls) : ls[k] = o
    THEN (CHOOSE k \in 1..Len(ls) : ls[k] = o /\ \A m \in 1..(k - 1) : ls[m] # o) - 1
    ELSE -1

\* listeners.splice(index, 1), index counted from 0
Splice1(ls, index) == SubSeq(ls, 1, index) \o SubSeq(ls, index + 2, Len(ls))

\* variant: splice(index) without a count removes the rest of the array
cleanup_SpliceToEnd(ls, o) ==
  LET index == IndexOf(ls, o)
  IN IF index > -1 THEN SubSeq(ls, 1, index) ELSE ls

\* variant: the index found is tested with > 0
cleanup_IndexPositive(ls, o) ==
  LET index == IndexOf(ls, o)
  IN IF index > 0 THEN Splice1(ls, index) ELSE ls

\* the function returned by the effect, applied to the listeners array
cleanup(ls, o) ==
  LET index == IndexOf(ls, o)
  IN IF index > -1 THEN Splice1(ls, index) ELSE ls

\* the component o renders for the first time: useState(memoryState)
Render(o) ==
  /\ hooks[o].pc = "unmounted"
  /\ hooks' = [hooks EXCEPT ![o] = [pc |-> "rendered", state |-> memoryState, dirty |-> FALSE]]
  /\ delivered' = <<>>
  /\ UNCHANGED <<count, memoryState, toastTimeouts, timers, limit, last, shows, listeners, form>>

\* the effect of o runs, after the first render or after a cleanup:
\* listeners.push(setState)
Effect(o) ==
  /\ hooks[o].pc \in {"rendered", "rerun"}
  /\ listeners' = Append(listeners, o)
  /\ hooks' = [hooks EXCEPT ![o].pc = "subscribed"]
  /\ delivered' = <<>>
  /\ UNCHANGED <<count, memoryState, toastTimeouts, timers, limit, last, shows, form>>

\* the state of o has changed: its effect is cleaned up, to be run again
Cleanup(o) ==
  /\ hooks[o].pc = "subscribed"
  /\ hooks[o].dirty
  /\ listeners' = cleanup(listeners, o)
  /\ hooks' = [hooks EXCEPT ![o].pc = "rerun", ![o].dirty = FALSE]
  /\ delivered' = <<>>
  /\ UNCHANGED <<count, memoryState, toastTimeouts, timers, limit, last, shows, form>>

\* the component o unmounts: its effect is cleaned up
Unmount(o) ==
  /\ hooks[o].pc = "subscribed"
  /\ listeners' = cleanup(listeners, o)
  /\ hooks' = [hooks EXCEPT ![o] = Unmounted]
  /\ delivered' = <<>>
  /\ UNCHANGED <<count, memoryState, toastTimeouts, timers, limit, last, shows, form>>

Next ==
  \/ \E props \in ToastInputs : Toast(props)
  \/ \E id \in IssuedIds, props \in UpdateInputs : HandleUpdate(id, props)
  \/ \E id \in IssuedIds : HandleDismiss(id)
  \/ \E toastId \in OptIdInputs : Dismiss(toastId)
  \/ \E i \in 1..MaxLimit, open \in BOOLEAN : OnOpenChange(i, open)
  \/ \E toastId \in GenIds : TimerFires(toastId)

Spec == Init /\ [][Next]_vars
SpecN == InitN /\ [][Next]_vars

\* a scheduled setTimeout callback eventually runs
Fairness == \A toastId \in GenIds : WF_vars(TimerFires(toastId))
FairSpec == Init /\ [][Next]_vars /\ Fairness

\* the calls made while components using the hook mount, re-run their
\* effect and unmount
NextH ==
  \/ \E props \in {[title |-> "A"]} : Toast(props)
  \/ \E id \in IssuedIds, props \in {[title |-> "B"]} : HandleUpdate(id, props)
  \/ \E id \in IssuedIds : HandleDismiss(id)
  \/ \E toastId \in GenIds : TimerFires(toastId)
  \/ \E o \in Observers : Render(o)
  \/ \E o \in Observers : Effect(o)
  \/ \E o \in Observers : Cleanup(o)
  \/ \E o \in Observers : Unmount(o)

SpecH == Init /\ [][NextH]_vars

\* ------------------------------------------------- SubmitDealForm
\* the validation at the head of each handler
Ready(h, v) ==
  IF h = "tags"
    THEN v.basics /\ v.productDescription # ""
    ELSE v.basics /\ v.prices

\* how the awaited AI call ends: with a suggestion, with an empty suggestion,
\* with undefined (reading a property of it throws inside the try block), or
\* rejected
Outcomes == {"result", "empty", "undefined", "reject"}

\* the fields of the toast each path of the handler h shows
MissingToast(h) ==
  IF h = "tags"
    THEN [title |-> "Missing Information",
          description |-> "Please fill in Product Name, Description, and Category to suggest tags.",
          variant |-> "destructive"]
    ELSE [title |-> "Missing Information",
          description |-> "Please fill in Product Name, Category, Retailer, Original Price, and Deal Price to suggest a description.",
          variant |-> "destructive"]

SettledToast(h, outcome) ==
  CASE outcome = "result" ->
         IF h = "tags"
           THEN [title |-> "Tags Suggested",
                 description |-> "AI has suggested tags for your deal."]
           ELSE [title |-> "Description Suggested",
                 description |-> "AI has suggested a new description."]
    [] outcome = "empty" ->
         IF h = "tags"
           THEN [title |-> "No Tags Suggested",
                 description |-> "AI could not suggest tags based on the provided information.",
                 variant |-> "default"]
           ELSE [title |-> "No Description Suggested",
                 description |-> "AI could not suggest a description.",
                 variant |-> "default"]
    [] OTHER ->
         IF h = "tags"
           THEN [title |-> "Error",
                 description |-> "Could not suggest tags. Please try again.",
                 variant |-> "destructive"]
           ELSE [title |-> "Error",
                 description |-> "Could not suggest description. Please try again.",
                 variant |-> "destructive"]

\* form.setValue with the suggestion, on the path that has one
SetValue(h, outcome, v) ==
  IF outcome # "result" THEN v
  ELSE IF h = "tags" THEN [v EXCEPT !.tags = "ai"]
  ELSE [v EXCEPT !.productDescription = "ai"]

\* the number of handler invocations awaiting their AI call
Awaiting == Cardinality({h \in Handlers : form.pc[h] = "awaiting"})

\* the handler h is invoked with a value missing: one toast, and return
SuggestMissing(h) ==
  /\ form.pc[h] = "idle"
  /\ ~form.flag[h]
  /\ count + Awaiting < MaxShows
  /\ ~Ready(h, form.values)
  /\ toast(MissingToast(h))
  /\ form' = [form EXCEPT !.call = [handler |-> h, path |-> "missing"]]

\* the handler h is invoked with its values filled: it sets its loading flag
\* and awaits the AI call
SuggestStart(h) ==
  /\ form.pc[h] = "idle"
  /\ ~form.flag[h]
  /\ count + Awaiting < MaxShows
  /\ Ready(h, form.values)
  /\ form' = [form EXCEPT !.flag[h] = TRUE, !.pc[h] = "awaiting",
                          !.call = [handler |-> h, path |-> "start"]]
  /\ delivered' = <<>>
  /\ UNCHANGED <<count, memoryState, toastTimeouts, timers, limit, last, shows,
                 listeners, hooks>>

\* variant: the flag is cleared at the end of the try block, so not when the
\* call is rejected or throws
Settle_FlagInTry(h, outcome) ==
  /\ form.pc[h] = "awaiting"
  /\ toast(SettledToast(h, outcome))
  /\ form' = [form EXCEPT !.flag[h] = outcome \notin {"result", "empty"},
                          !.pc[h] = "idle",
                          !.values = SetValue(h, outcome, @),
                          !.call = [handler |-> h, path |-> outcome]]

\* the AI call awaited by the handler h settles: the rest of the handler runs
Settle(h, outcome) ==
  /\ form.pc[h] = "awaiting"
  /\ toast(SettledToast(h, outcome))
  /\ form' = [form EXCEPT !.flag[h] = FALSE,
                          !.pc[h] = "idle",
                          !.values = SetValue(h, outcome, @),
                          !.call = [handler |-> h, path |-> outcome]]

\* the form values the component can hold when a handler is invoked
FormValues ==
  {[basics |-> b, prices |-> p, productDescription |-> d, tags |-> ""] :
     b \in BOOLEAN, p \in BOOLEAN, d \in {"", "user"}}

InitF ==
  /\ count = 0
  /\ memoryState = [toasts |-> <<>>]
  /\ toastTimeouts = {}
  /\ timers = EmptyBag
  /\ limit = TOAST_LIMIT
  /\ last = [via |-> "init", action |-> NoAction, props |-> NoProps]
  /\ shows = [only |-> TRUE, props |-> <<>>]
  /\ listeners = <<>>
  /\ hooks = [o \in Observers |-> Unmounted]
  /\ delivered = <<>>
  /\ \E v \in FormValues : form = FormInit(v)

\* the suggestion buttons are clicked and the AI calls settle, while the
\* toasts shown are closed and removed
NextF ==
  \/ \E h \in Handlers : SuggestMissing(h)
  \/ \E h \in Handlers : SuggestStart(h)
  \/ \E h \in Handlers, outcome \in Outcomes : Settle(h, outcome)
  \/ \E i \in 1..TOAST_LIMIT : OnOpenChange(i, FALSE)
  \/ \E toastId \in GenIds : TimerFires(toastId)

SpecF == InitF /\ [][NextF]_vars

\* ------------------------------------------------- genId on its own
\* counter values near the start and near the wrap at MAX_SAFE_INTEGER
GenCounts ==
  (0..MaxGen) \cup ((MAX_SAFE_INTEGER - 1 - MaxGen)..(MAX_SAFE_INTEGER - 1))

InitG ==
  /\ count \in GenCounts
  /\ memoryState = [toasts |-> <<>>]
  /\ toastTimeouts = {}
  /\ timers = EmptyBag
  /\ limit = TOAST_LIMIT
  /\ last = [via |-> "init", action |-> NoAction, props |-> NoProps]
  /\ shows = [only |-> TRUE, props |-> <<>>]
  /\ listeners = <<>>
  /\ hooks = [o \in Observers |-> Unmounted]
  /\ delivered = <<>>
  /\ form = FormInit(NoValues)

\* one call of genId(); the id it returns is recorded in last.props
GenId ==
  /\ count \in GenCounts
  /\ count' = genIdCount(count)
  /\ last' = [via |-> "genId", action |-> NoAction,
              props |-> [id |-> genIdString(count)]]
  /\ UNCHANGED <<memoryState, toastTimeouts, timers, limit, shows, hookVars, form>>

NextG == GenId

SpecG == InitG /\ [][NextG]_vars

\* ------------------------------------------------------------- properties
toasts == memoryState.toasts
Ids(ts) == {ts[i].id : i \in 1..Len(ts)}
Min(a, b) == IF a < b THEN a ELSE b

\* C1: in every reachable state the list holds at most as many records as
\* the configured limit (TOAST_LIMIT in the program as built).
C1_LengthAtMostLimit ==
  /\ Len(toasts) <= limit
  /\ limit = TOAST_LIMIT => Len(toasts) <= TOAST_LIMIT

\* a show has evicted a record and the list is full
C1_Witness ==
  /\ last.via = "toast"
  /\ count > limit
  /\ Len(toasts) = limit

\* the list expected after the toast() calls whose fields are ps, in order,
\* under the limit n: the min(k, n) latest records, newest first
MostRecent(ps, n) ==
  LET k == Len(ps)
  IN [i \in 1..Min(k, n) |-> NewToast(ps[k + 1 - i], ToString(k + 1 - i))]

\* C2: from the empty list, after k consecutive toast() calls and nothing
\* else, the list is exactly the min(k, N) most recently shown records,
\* newest first; with N = 1, showing A then B leaves only B's record.
C2_KeepsMostRecent ==
  shows.only =>
    /\ Len(shows.props) = count
    /\ toasts = MostRecent(shows.props, limit)
    /\ (limit = 1 /\ shows.props = <<[title |-> "A"], [title |-> "B"]>>) =>
         /\ Len(toasts) = 1
         /\ toasts[1].title = "B"
         /\ toasts[1].id = "2"

\* more shows than the limit were made, and nothing else
C2_Witness ==
  /\ shows.only
  /\ Len(shows.props) > limit
  /\ shows.props[1] = [title |-> "A"]
  /\ shows.props[2] = [title |-> "B"]

\* a record that is closed before the step is closed after it, if still listed
StaysClosed ==
  \A i \in 1..Len(toasts), j \in 1..Len(toasts') :
    (toasts[i].id = toasts'[j].id /\ ~toasts[i].open) => ~toasts'[j].open

\* the step is a handle.update whose fields carry open = true
UpdateReopens ==
  /\ last'.via = "handle.update"
  /\ "open" \in DOMAIN last'.props
  /\ last'.props.open

\* C3 as claimed: once a record's open flag is false, no later state holds
\* that record with open = true, whatever is called (update with arbitrary
\* fields included).
C3_Original ==
  [][limit = TOAST_LIMIT => StaysClosed]_vars

\* C3 as amended: a record whose open flag is false stays closed through
\* every step except a handle.update whose fields carry open = true.
C3_ClosedUnlessReopenedByUpdate ==
  [][~UpdateReopens => StaysClosed]_vars

\* a closed record, with its removal pending, was updated and is still closed
C3_Witness ==
  /\ last.via = "handle.update"
  /\ "title" \in DOMAIN last.props
  /\ \E i \in 1..Len(toasts) :
       /\ toasts[i].id = last.action.toast.id
       /\ ~toasts[i].open
       /\ toasts[i].title = "B"
       /\ toasts[i].id \in toastTimeouts

\* the step is the firing of the timer of id, which was pending
FiredFor(id) ==
  /\ last'.via = "timer"
  /\ last'.action.toastId = Some(id)
  /\ id \in toastTimeouts
  /\ BagIn(id, timers)

\* C4 as claimed: a record leaves the list only when the removal timer of
\* that record fires, the record having been dismissed (open = false).
C4_Original ==
  [][limit = TOAST_LIMIT =>
       \A i \in 1..Len(toasts) :
         toasts[i].id \notin Ids(toasts') =>
           (FiredFor(toasts[i].id) /\ ~toasts[i].open)]_vars

\* C4 as amended: a record leaves the list only when a removal timer pending
\* for its id fires, or when a toast() call on a full list evicts it from
\* the tail.
C4_LeavesByTimerOrEviction ==
  [][\A i \in 1..Len(toasts) :
       toasts[i].id \notin Ids(toasts') =>
         \/ FiredFor(toasts[i].id)
         \/ /\ last'.via = "toast"
            /\ Len(toasts) = limit
            /\ i = Len(toasts)]_vars

\* the timer of record 1 removed it while record 2 stays, with no eviction
C4_Witness ==
  /\ last.via = "timer"
  /\ last.action.toastId = Some("1")
  /\ count = 2
  /\ limit = 2
  /\ Len(toasts) = 1
  /\ toasts[1].id = "2"

\* C5: right after a dismiss of an id that is in the list, that record has
\* open = false and is still listed; length, order and every other record
\* are as before.
C5_DismissMarksOnlyThatRecord ==
  [][\A id \in GenIds :
       (last'.action = DismissToast(Some(id)) /\ id \in Ids(toasts)) =>
         /\ Len(toasts') = Len(toasts)
         /\ \A i \in 1..Len(toasts) :
              toasts'[i] = IF toasts[i].id = id
                             THEN [toasts[i] EXCEPT !["open"] = FALSE]
                             ELSE toasts[i]
         /\ \E i \in 1..Len(toasts') : toasts'[i].id = id /\ ~toasts'[i].open]_vars

\* the older of two records was dismissed, the newer one is still open
C5_Witness ==
  /\ last.action.type = "DISMISS_TOAST"
  /\ Len(toasts) = 2
  /\ last.action.toastId = Some(toasts[2].id)
  /\ ~toasts[2].open
  /\ toasts[1].open

\* C6: under FairSpec (a pending timer eventually fires), a record that was
\* dismissed while in the list is eventually absent from the list, whatever
\* is called meanwhile; when it is the only record ever shown, the list
\* eventually becomes empty.
C6_DismissedEventuallyAbsent ==
  /\ \A id \in GenIds :
       (last.action = DismissToast(Some(id)) /\ id \in Ids(toasts))
         ~> (id \notin Ids(toasts))
  /\ (count = 1 /\ last.action = DismissToast(Some("1")) /\ "1" \in Ids(toasts))
       ~> (toasts = <<>> \/ count > 1)

\* the only record shown was dismissed and its timer has emptied the list
C6_Witness ==
  /\ last.via = "timer"
  /\ last.action.toastId = Some("1")
  /\ count = 1
  /\ toasts = <<>>
  /\ timers = EmptyBag

\* C7: at every moment each id has at most one pending removal timer, the
\* pending timers being those of the timer table; a dismiss of id repeated
\* right after a dismiss of the same id, its timer pending, changes neither
\* the list nor the timers.
C7_DismissSchedulesOnce ==
  /\ [](/\ \A id \in IdInputs : CopiesIn(id, timers) <= 1
        /\ BagToSet(timers) = toastTimeouts)
  /\ [][\A id \in IdInputs :
          (/\ last.action = DismissToast(Some(id))
           /\ id \in toastTimeouts
           /\ last'.action = DismissToast(Some(id)))
            => UNCHANGED <<memoryState, toastTimeouts, timers>>]_vars

\* a listed record was dismissed through its handle: closed, one timer pending
C7_Witness ==
  /\ last.via = "handle.dismiss"
  /\ \E i \in 1..Len(toasts) :
       /\ last.action.toastId = Some(toasts[i].id)
       /\ ~toasts[i].open
       /\ CopiesIn(toasts[i].id, timers) = 1
       /\ toasts[i].id \in toastTimeouts

\* C8 as claimed: a dismiss of an id that is not in the list changes neither
\* the list nor the timer table.
C8_Original ==
  [][limit = TOAST_LIMIT =>
       \A id \in IdInputs :
         (last'.action = DismissToast(Some(id)) /\ id \notin Ids(toasts))
           => UNCHANGED <<memoryState, toastTimeouts, timers>>]_vars

\* C9: an update for an id that is not in the list (never shown, removed by
\* its timer, or evicted) leaves the list as it is.
C9_UpdateOfAbsentIdIsNoOp ==
  /\ [](\A id \in IdInputs, p \in UpdateInputs :
          id \notin Ids(toasts) =>
            reducer(memoryState, UpdateToast(Spread(p, [id |-> id])), limit) = memoryState)
  /\ [][(/\ last'.action.type = "UPDATE_TOAST"
          /\ last'.action.toast.id \notin Ids(toasts))
           => memoryState' = memoryState]_vars

\* the handle of an evicted record was updated; the list holds the newer one
C9_Witness ==
  /\ last.via = "handle.update"
  /\ last.action.toast.id = "1"
  /\ "title" \in DOMAIN last.props
  /\ Len(toasts) = 1
  /\ toasts[1].id = "2"
  /\ toasts[1].open

\* C10: an update for an id in the list gives the matching record the
\* dispatched fields and keeps its other fields; length, order, the other
\* records and the timers are as before.
C10_UpdateMergesIntoThatRecord ==
  [][(/\ last'.action.type = "UPDATE_TOAST"
      /\ last'.action.toast.id \in Ids(toasts))
       => LET a == last'.action.toast
          IN /\ Len(toasts') = Len(toasts)
             /\ \A i \in 1..Len(toasts) :
                  IF toasts[i].id = a.id
                    THEN /\ DOMAIN toasts'[i] = (DOMAIN toasts[i]) \cup (DOMAIN a)
                         /\ \A f \in DOMAIN toasts'[i] :
                              toasts'[i][f] = IF f \in DOMAIN a THEN a[f] ELSE toasts[i][f]
                    ELSE toasts'[i] = toasts[i]
             /\ UNCHANGED <<toastTimeouts, timers>>]_vars

\* the newer of two records got a new title; the older one keeps its own
C10_Witness ==
  /\ last.via = "handle.update"
  /\ last.props = [title |-> "B"]
  /\ Len(toasts) = 2
  /\ last.action.toast.id = toasts[1].id
  /\ toasts[1].title = "B"
  /\ toasts[1].open
  /\ "title" \in DOMAIN toasts[2]
  /\ toasts[2].title = "A"

\* C11: dismiss() without an id sets open = false on every listed record
\* and leaves one pending removal timer for each of their ids; length and
\* order are as before.
C11_DismissAllMarksAndSchedulesAll ==
  [][last'.action = DismissToast(Undefined) =>
       /\ Len(toasts') = Len(toasts)
       /\ \A i \in 1..Len(toasts) :
            /\ toasts'[i] = [toasts[i] EXCEPT !["open"] = FALSE]
            /\ toasts[i].id \in toastTimeouts'
            /\ CopiesIn(toasts[i].id, timers') = 1]_vars

\* two open records were dismissed together
C11_Witness ==
  /\ last.action = DismissToast(Undefined)
  /\ Len(toasts) = 2
  /\ ~toasts[1].open /\ ~toasts[2].open
  /\ Ids(toasts) \subseteq toastTimeouts
  /\ BagCardinality(timers) = 2

RECURSIVE Without(_, _)
\* ts without the records whose id is id, the others in their order
Without(ts, id) ==
  IF ts = <<>> THEN <<>>
  ELSE IF Head(ts).id = id THEN Without(Tail(ts), id)
  ELSE <<Head(ts)>> \o Without(Tail(ts), id)

\* C12: REMOVE_TOAST with an id deletes exactly the record with that id and
\* keeps the others in their order; REMOVE_TOAST without an id gives the
\* empty list.
C12_RemoveDeletesThatRecord ==
  /\ [](/\ \A id \in IdInputs :
             reducer(memoryState, RemoveToast(Some(id)), limit).toasts = Without(toasts, id)
        /\ reducer(memoryState, RemoveToast(Undefined), limit).toasts = <<>>)
  /\ [][last'.action.type = "REMOVE_TOAST" =>
          toasts' = Without(toasts, last'.action.toastId.val)]_vars

\* the timer of the newer record removed it, the older record is kept
C12_Witness ==
  /\ last.via = "timer"
  /\ last.action.toastId = Some("2")
  /\ limit = 2
  /\ Len(toasts) = 1
  /\ toasts[1].id = "1"

\* C13: no two records of the list have the same id.
C13_IdsUnique ==
  \A i, j \in 1..Len(toasts) : i # j => toasts[i].id # toasts[j].id

\* an update carrying the id of the other record was applied to two records
C13_Witness ==
  /\ last.via = "handle.update"
  /\ "id" \in DOMAIN last.props
  /\ last.action.toast.id = "1"
  /\ Len(toasts) = 2
  /\ toasts[1].id = "2"
  /\ toasts[2].id = "1"

\* C14: right after toast(fields) the first record of the list carries the
\* newly generated id, has open = true whatever the fields say, and has the
\* other supplied fields as supplied.
C14_NewRecordFirstAndOpen ==
  [][last'.via = "toast" =>
       /\ Len(toasts') >= 1
       /\ toasts'[1].id = ToString(count')
       /\ toasts'[1].id = last'.action.toast.id
       /\ toasts'[1].id \notin Ids(toasts)
       /\ toasts'[1].open = TRUE
       /\ \A f \in (DOMAIN last'.props) \ {"open"} :
            f \in DOMAIN toasts'[1] /\ toasts'[1][f] = last'.props[f]]_vars

\* a toast was shown with open = false among its fields
C14_Witness ==
  /\ last.via = "toast"
  /\ last.props = [title |-> "A", open |-> FALSE]
  /\ toasts[1].open
  /\ toasts[1].title = "A"
  /\ toasts[1].id = "2"

\* the number of the toast() call that issued id
IdNumber(id) == CHOOSE n \in 0..(MaxShows + 1) : ToString(n) = id
\* the position of the record id in ts
Pos(ts, id) == CHOOSE k \in 1..Len(ts) : ts[k].id = id

C19_HandleBoundToItsId ==
  [][/\ (last'.via = "handle.update"
           /\ HandleUpdate(last'.handle, last'.props)) =>
          /\ Len(toasts') = Len(toasts)
          /\ \A i \in 1..Len(toasts) :
               /\ toasts'[i].id = toasts[i].id
               /\ toasts[i].id # last'.handle => toasts'[i] = toasts[i]
          /\ UNCHANGED <<toastTimeouts, timers>>
     /\ (last'.via = "handle.dismiss" /\ HandleDismiss(last'.handle)) =>
          /\ Len(toasts') = Len(toasts)
          /\ \A i \in 1..Len(toasts) :
               toasts'[i] = IF toasts[i].id = last'.handle
                              THEN [toasts[i] EXCEPT !["open"] = FALSE]
                              ELSE toasts[i]
          /\ toastTimeouts' = toastTimeouts \cup {last'.handle}
          /\ \A id \in IdInputs :
               CopiesIn(id, timers') =
                 IF id = last'.handle THEN 1 ELSE CopiesIn(id, timers)]_vars

\* the handle of record 1 was updated with fields carrying the id of record 2
C19_Witness ==
  /\ last.via = "handle.update"
  /\ last.props = [title |-> "B", id |-> "2"]
  /\ last.action.toast.id = "1"
  /\ Len(toasts) = 2
  /\ toasts[2].id = "1"
  /\ toasts[2].title = "B"
  /\ toasts[1].id = "2"
  /\ "title" \notin DOMAIN toasts[1]

\* C20: the onOpenChange callback of a record, called with false, dismisses
\* that record (open = false, exactly one removal timer pending for its id,
\* other records as before), however often it is called; called with true
\* it changes nothing.
C20_OnOpenChangeDismissesOnce ==
  [][\A i \in 1..Len(toasts) :
       /\ (last'.via = "onOpenChange" /\ OnOpenChange(i, FALSE)) =>
            /\ Len(toasts') = Len(toasts)
            /\ toasts'[i] = [toasts[i] EXCEPT !["open"] = FALSE]
            /\ \A j \in 1..Len(toasts) : j # i => toasts'[j] = toasts[j]
            /\ toasts[i].id \in toastTimeouts'
            /\ CopiesIn(toasts[i].id, timers') = 1
            /\ BagCardinality(timers') <= BagCardinality(timers) + 1
       /\ (last'.via = "onOpenChange" /\ OnOpenChange(i, TRUE)) =>
            UNCHANGED <<memoryState, toastTimeouts, timers, count>>]_vars

\* a record whose removal was already pending was closed through its callback
C20_Witness ==
  /\ last.via = "onOpenChange"
  /\ last.action.type = "DISMISS_TOAST"
  /\ \E i \in 1..Len(toasts) :
       /\ last.action.toastId = Some(toasts[i].id)
       /\ ~toasts[i].open
       /\ CopiesIn(toasts[i].id, timers) = 1

\* C16 as claimed: a component that has subscribed through useToast holds
\* the current list, from its subscription on and after every operation; no
\* change made between its first render and its subscription is missed.
C16_Original ==
  \A o \in Observers :
    (hooks[o].pc = "subscribed" /\ IsListener(o)) => hooks[o].state = memoryState

\* the step is a dispatch: no hook moves
DispatchStep == \A o \in Observers : hooks'[o].pc = hooks[o].pc

\* C17: every dispatched operation, also one that leaves the list as it is,
\* calls every registered listener exactly once with the list after the
\* operation, in the order of the listeners array, which is the order of
\* registration (a registration goes to the end of the array).
C17_BroadcastToAllInOrder ==
  /\ [][DispatchStep =>
          /\ listeners' = listeners
          /\ Len(delivered') = Len(listeners)
          /\ \A k \in 1..Len(listeners) :
               /\ delivered'[k].to = listeners[k]
               /\ delivered'[k].state = memoryState'
          /\ \A o \in Observers :
               /\ Cardinality({k \in 1..Len(delivered') : delivered'[k].to = o})
                    = (IF IsListener(o) THEN 1 ELSE 0)
               /\ IsListener(o) => hooks'[o].state = memoryState']_vars
  /\ [][\A o \in Observers :
          (hooks[o].pc # "subscribed" /\ hooks'[o].pc = "subscribed")
            => listeners' = Append(listeners, o)]_vars

\* an update of an absent id was broadcast to two listeners, in their order
C17_Witness ==
  /\ last.via = "handle.update"
  /\ last.action.toast.id \notin Ids(toasts)
  /\ Len(toasts) = 1
  /\ listeners = <<"SubmitDealForm", "Toaster">>
  /\ Len(delivered) = 2
  /\ delivered[1] = [to |-> "SubmitDealForm", state |-> memoryState]
  /\ delivered[2] = [to |-> "Toaster", state |-> memoryState]

\* C18: when the cleanup of a component runs, the component leaves the
\* listeners array and the others keep their places in order; listeners are
\* called only while registered, and the state of a component that is not
\* registered is not touched by a dispatch; the cleanup of a component that
\* is not registered leaves the array as it is.
C18_UnsubscribeRemovesOnlyThatListener ==
  /\ [][\A o \in Observers :
          /\ (hooks[o].pc = "subscribed" /\ hooks'[o].pc # "subscribed") =>
               LET other(x) == x # o
               IN listeners' = SelectSeq(listeners, other)
          /\ (DispatchStep /\ ~IsListener(o)) =>
               /\ hooks'[o] = hooks[o]
               /\ \A k \in 1..Len(delivered') : delivered'[k].to # o]_vars
  /\ [](\A o \in Observers : ~IsListener(o) => cleanup(listeners, o) = listeners)

\* Toaster has unsubscribed, the other component is still registered, and a
\* later broadcast reached only that one
C18_Witness ==
  /\ hooks["Toaster"].pc = "rerun"
  /\ hooks["Toaster"].state # memoryState
  /\ listeners = <<"SubmitDealForm">>
  /\ delivered = <<[to |-> "SubmitDealForm", state |-> memoryState]>>
  /\ hooks["SubmitDealForm"].state = memoryState

\* C21: when a removal timer fires for an id that no listed record carries
\* (the record was evicted or already removed), the list stays as it is and
\* the id leaves the timer table, its callback being no longer pending.
C21_TimerForAbsentRecordIsNoOp ==
  [][(/\ last'.via = "timer"
      /\ TimerFires(last'.action.toastId.val)
      /\ last'.action.toastId.val \notin Ids(toasts)) =>
        LET id == last'.action.toastId.val
        IN /\ memoryState' = memoryState
           /\ toastTimeouts' = toastTimeouts \ {id}
           /\ id \notin toastTimeouts'
           /\ CopiesIn(id, timers') = 0]_vars

\* under the limit 1, the timer of the evicted record 1 has fired while
\* record 2 was listed
C21_Witness ==
  /\ limit = 1
  /\ last.via = "timer"
  /\ last.action.toastId = Some("1")
  /\ Len(toasts) = 1
  /\ toasts[1].id = "2"
  /\ "1" \notin toastTimeouts
  /\ ~BagIn("1", timers)

\* C22: only the firing of a timer takes an entry out of the timer table,
\* and only its own: every other call keeps all entries and pending
\* callbacks, toast() (also when it evicts a dismissed record) and
\* handle.update leave the table exactly as it is.
C22_OnlyFiringRemovesTimerEntry ==
  [][/\ last'.via # "timer" =>
          /\ toastTimeouts \subseteq toastTimeouts'
          /\ \A id \in IdInputs : CopiesIn(id, timers') >= CopiesIn(id, timers)
     /\ (last'.via = "toast" /\ Toast(last'.props)) =>
          UNCHANGED <<toastTimeouts, timers>>
     /\ (last'.via = "handle.update"
           /\ HandleUpdate(last'.handle, last'.props)) =>
          UNCHANGED <<toastTimeouts, timers>>
     /\ (last'.via = "timer" /\ TimerFires(last'.action.toastId.val)) =>
          /\ toastTimeouts' = toastTimeouts \ {last'.action.toastId.val}
          /\ \A id \in IdInputs :
               id # last'.action.toastId.val =>
                 CopiesIn(id, timers') = CopiesIn(id, timers)]_vars

\* under the limit 1, showing record 2 has evicted record 1 while the timer
\* of record 1 was pending, and it is pending still
C22_Witness ==
  /\ limit = 1
  /\ last.via = "toast"
  /\ Len(toasts) = 1
  /\ toasts[1].id = "2"
  /\ "1" \in toastTimeouts
  /\ CopiesIn("1", timers) = 1

\* C23 as claimed: every listed record whose id has a pending removal timer
\* has open = false.
C23_Original ==
  \A i \in 1..Len(toasts) :
    (toasts[i].id \in toastTimeouts /\ BagIn(toasts[i].id, timers)) => ~toasts[i].open

\* C24 as claimed: dismiss called with an id, the empty string included,
\* neither changes nor schedules the removal of a record with another id.
C24_Original ==
  [][(/\ last'.via = "dismiss"
      /\ last'.action.toastId # Undefined
      /\ Dismiss(last'.action.toastId)) =>
        /\ Len(toasts') = Len(toasts)
        /\ \A i \in 1..Len(toasts) :
             toasts[i].id # last'.action.toastId.val =>
               /\ toasts'[i] = toasts[i]
               /\ toasts[i].id \in toastTimeouts' <=> toasts[i].id \in toastTimeouts
               /\ CopiesIn(toasts[i].id, timers') = CopiesIn(toasts[i].id, timers)]_vars

\* a step that is a dismiss call: dismiss, handle.dismiss or onOpenChange(false)
DismissCall ==
  /\ last'.via \in {"dismiss", "handle.dismiss", "onOpenChange"}
  /\ last'.action.type = "DISMISS_TOAST"

TimerTableEmpty == toastTimeouts = {} /\ timers = EmptyBag

\* C25 as claimed: if only finitely many dismiss calls occur and pending
\* timers eventually fire, the timer table is eventually empty for good and
\* from then on no listed record has open = false.
C25_Original ==
  <>[][~DismissCall]_vars =>
    <>[](TimerTableEmpty /\ \A i \in 1..Len(toasts) : toasts[i].open)

\* the record at position i is closed and no removal timer is pending for it
ClosedForGood(ts, tt, i) == ~ts[i].open /\ ts[i].id \notin tt

\* C25: if only finitely many dismiss calls occur and pending timers
\* eventually fire, the timer table is eventually empty and stays empty; a
\* listed record is closed with no timer pending for it only by a
\* handle.update whose fields carry open: false, or was so before the step.
C25_TimerTableEventuallyEmpty ==
  /\ <>[][~DismissCall]_vars => <>[]TimerTableEmpty
  /\ [][\A i \in 1..Len(toasts') :
          ClosedForGood(toasts', toastTimeouts', i) =>
            \/ /\ last'.via = "handle.update"
               /\ "open" \in DOMAIN last'.props
               /\ ~last'.props.open
               /\ last'.handle = toasts'[i].id
            \/ \E j \in 1..Len(toasts) :
                 /\ toasts[j].id = toasts'[i].id
                 /\ ClosedForGood(toasts, toastTimeouts, j)]_vars

\* a removal timer has fired and the table is empty, while a record closed
\* by handle.update stays listed
C25_Witness ==
  /\ last.via = "timer"
  /\ TimerTableEmpty
  /\ Len(toasts) = 1
  /\ ~toasts[1].open

RECURSIVE genIdAfter(_, _)
\* the id returned by the n-th of n consecutive genId calls, from counter c
genIdAfter(c, n) ==
  IF n = 1 THEN genIdString(c) ELSE genIdAfter(genIdCount(c), n - 1)

\* C26: the counter stays in 0..M-1 with M = MAX_SAFE_INTEGER; a genId call
\* moves it to its successor, M-1 being followed by 0 (one cycle through all
\* M values), and returns its decimal string, never the empty string; the
\* ids of up to MaxWindow consecutive calls are pairwise different, across
\* the wrap too.
C26_GenIdCounter ==
  /\ [](/\ count \in 0..(MAX_SAFE_INTEGER - 1)
        /\ last.via = "genId" =>
             /\ last.props.id = ToString(count)
             /\ last.props.id # ""
        /\ \A i, j \in 1..MaxWindow :
             i < j => genIdAfter(count, i) # genIdAfter(count, j))
  /\ [][GenId =>
          count' = IF count = MAX_SAFE_INTEGER - 1 THEN 0 ELSE count + 1]_vars

\* the counter has wrapped: the call made at M-1 returned "0"
C26_Witness ==
  /\ last.via = "genId"
  /\ count = 0
  /\ last.props.id = "0"

\* the number of registrations of the component o in the array ls
Registrations(ls, o) == Cardinality({k \in 1..Len(ls) : ls[k] = o})

\* C27: the listeners array never holds a component twice: a component whose
\* effect has run is registered exactly once, through every cleanup and
\* re-run of the effect, and a component that is unmounted, or whose effect
\* has not run or is cleaned up, is not registered.
C27_ListenersNoDuplicates ==
  \A o \in Observers :
    /\ Registrations(listeners, o) <= 1
    /\ hooks[o].pc = "subscribed" => Registrations(listeners, o) = 1
    /\ hooks[o].pc # "subscribed" => Registrations(listeners, o) = 0

\* both components are registered once; SubmitDealForm has received a
\* broadcast and awaits its re-registration, Toaster is registered behind it
C27_Witness ==
  /\ listeners = <<"SubmitDealForm", "Toaster">>
  /\ hooks["SubmitDealForm"].pc = "subscribed"
  /\ hooks["SubmitDealForm"].dirty
  /\ hooks["Toaster"].pc = "subscribed"
  /\ ~hooks["Toaster"].dirty
  /\ hooks["Toaster"].state = memoryState
  /\ toasts # <<>>

\* a step of a suggestion handler shows exactly one toast: one record is
\* added at the head of the list with a new id, by one call of toast()
ShowsOneToast ==
  /\ count' = count + 1
  /\ last'.via = "toast"
  /\ last'.action.type = "ADD_TOAST"
  /\ toasts'[1].id = ToString(count')
  /\ ToString(count') \notin Ids(toasts)

\* C28: an invocation of a suggestion handler with a value missing shows
\* exactly one toast and leaves the loading flag alone; an invocation with
\* its values filled sets the flag and shows nothing until the AI call
\* settles, and then, however the call ends, shows exactly one toast and
\* sets the flag back to false; the flag is true exactly while a call is
\* awaited.
C28_SuggestShowsOneToastAndClearsFlag ==
  /\ [][\A h \in Handlers :
          /\ SuggestMissing(h) =>
               /\ ShowsOneToast
               /\ toasts'[1].title = "Missing Information"
               /\ form'.flag = form.flag
          /\ SuggestStart(h) =>
               /\ UNCHANGED <<memoryState, count>>
               /\ form'.flag[h]
          /\ (form.pc[h] = "awaiting" /\ form'.pc[h] = "idle") =>
               /\ Settle(h, form'.call.path)
               /\ ShowsOneToast
               /\ ~form'.flag[h]
               /\ \A g \in Handlers \ {h} : form'.flag[g] = form.flag[g]]_vars
  /\ [](\A h \in Handlers : form.flag[h] <=> form.pc[h] = "awaiting")

\* handleSuggestTags has ended on a rejected AI call: its Error toast is
\* listed and its flag is false again
C28_Witness ==
  /\ form.call = [handler |-> "tags", path |-> "reject"]
  /\ last.via = "toast"
  /\ toasts[1].title = "Error"
  /\ ~form.flag["tags"]
  /\ form.pc["tags"] = "idle"

====
